---------------------------- MODULE Spec2Model ----------------------------
(***************************************************************************)
(* SciRef-Assistant: the search-session and candidate-pool engine of       *)
(* src/App.tsx (second, current revision of the component, lines 708-1526) *)
(* together with its types (src/unnamed/part_001).                         *)
(*                                                                         *)
(* Strings are sequences of one-character strings, so that toLowerCase,    *)
(* trim and parseInt are computed character by character.  A JavaScript    *)
(* object is a TLA+ function from its own keys, so that the object spread  *)
(* {...a, k: v} is [k |-> v] @@ a and an optional key may be missing.      *)
(***************************************************************************)
EXTENDS Integers, Sequences, FiniteSets, TLC

VARIABLES
    searchHistory,      \* useState<Record<string, SearchResultData>>
    activeSearchId,     \* useState<string | null>
    prefs,              \* useState<SearchPreferences>
    disapprovalHistory, \* useState<DisapprovalHistoryItem[]>
    inflight,           \* promises of performFetch that have not settled yet
    now,                \* the reading of Date.now()
    nextFetch,          \* number of performFetch calls made so far, plus one
    lastOp,             \* "discarded" after a callback that found its session
                        \* gone and returned prev, "refillFailed" after the
                        \* catch of a refill wrote, "done" after any other step
    provider            \* the call of fetchReferences that is followed step
                        \* by step: where it is and what it has read so far

vars == <<searchHistory, activeSearchId, prefs, disapprovalHistory,
          inflight, now, nextFetch, lastOp, provider>>

-----------------------------------------------------------------------------
(* Bounds of the model *)

\* searches the user starts
MaxSearches == 1

\* calls of performFetch
MaxFetches == 2

\* references the user disapproves
MaxDisapprovals == 1

-----------------------------------------------------------------------------
(* JavaScript numbers, strings and arrays *)

\* The number NaN: a value outside the integers the model computes with.
NaN == -999999

Min(a, b) == IF a < b THEN a ELSE b

Max(a, b) == IF a > b THEN a ELSE b

\* a > b on numbers: false as soon as one side is NaN
JsGt(a, b) == a # NaN /\ b # NaN /\ a > b

\* a < b on numbers
JsLt(a, b) == a # NaN /\ b # NaN /\ a < b

\* a - b on numbers
JsSub(a, b) == IF a = NaN \/ b = NaN THEN NaN ELSE a - b

\* a || 0 on numbers
JsOrZero(a) == IF a = NaN THEN 0 ELSE a

\* ToIntegerOrInfinity of an index argument
ToIntegerOrInfinity(x) == IF x = NaN THEN 0 ELSE x

\* the clamping of a relative index that slice and splice share
RelIndex(x, len) ==
    LET r == ToIntegerOrInfinity(x)
    IN  IF r < 0 THEN Max(len + r, 0) ELSE Min(r, len)

\* Array.prototype.slice(start, end)
Slice(s, start, end) ==
    LET k == RelIndex(start, Len(s))
        final == RelIndex(end, Len(s))
    IN  SubSeq(s, k + 1, final)

\* Array.prototype.slice(start)
SliceFrom(s, start) == SubSeq(s, RelIndex(start, Len(s)) + 1, Len(s))

\* whether s[i] is an element (and not undefined)
HasIndex(s, i) == i >= 0 /\ i < Len(s)

\* Array.prototype.splice(start, 1): the array left behind
SpliceDelete(s, start) ==
    LET a == RelIndex(start, Len(s))
        dc == Min(1, Len(s) - a)
    IN  SubSeq(s, 1, a) \o SubSeq(s, a + dc + 1, Len(s))

\* Array.prototype.splice(start, 0, item): the array left behind
SpliceInsert(s, start, item) ==
    LET a == RelIndex(start, Len(s))
    IN  SubSeq(s, 1, a) \o <<item>> \o SubSeq(s, a + 1, Len(s))

\* Array.prototype.filter
RECURSIVE Filter(_, _)
Filter(s, keep) ==
    IF s = <<>> THEN <<>>
    ELSE (IF Head(s) \in keep THEN <<Head(s)>> ELSE <<>>) \o Filter(Tail(s), keep)

Range(s) == {s[i] : i \in DOMAIN s}

Upper == <<"A","B","C","D","E","F","G","H","I","J","K","L","M",
           "N","O","P","Q","R","S","T","U","V","W","X","Y","Z">>

Lower == <<"a","b","c","d","e","f","g","h","i","j","k","l","m",
           "n","o","p","q","r","s","t","u","v","w","x","y","z">>

Digits == <<"0","1","2","3","4","5","6","7","8","9">>

WhiteSpace == {" ", "\t", "\n"}

\* String.prototype.toLowerCase
ToLowerCase(s) ==
    [i \in DOMAIN s |->
        IF \E k \in DOMAIN Upper : Upper[k] = s[i]
        THEN Lower[CHOOSE k \in DOMAIN Upper : Upper[k] = s[i]]
        ELSE s[i]]

\* stripping of leading white space
RECURSIVE TrimStart(_)
TrimStart(s) ==
    IF s # <<>> /\ Head(s) \in WhiteSpace THEN TrimStart(Tail(s)) ELSE s

\* stripping of trailing white space
RECURSIVE TrimEnd(_)
TrimEnd(s) ==
    IF s # <<>> /\ s[Len(s)] \in WhiteSpace
    THEN TrimEnd(SubSeq(s, 1, Len(s) - 1)) ELSE s

\* String.prototype.trim
Trim(s) == TrimEnd(TrimStart(s))

IsDigit(c) == \E k \in DOMAIN Digits : Digits[k] = c

DigitValue(c) == (CHOOSE k \in DOMAIN Digits : Digits[k] = c) - 1

\* the leading run of decimal digits of s
RECURSIVE DigitRun(_)
DigitRun(s) ==
    IF s # <<>> /\ IsDigit(Head(s)) THEN <<Head(s)>> \o DigitRun(Tail(s)) ELSE <<>>

\* the value of a string of decimal digits
RECURSIVE DecimalValue(_)
DecimalValue(ds) ==
    IF ds = <<>> THEN 0
    ELSE 10 * DecimalValue(SubSeq(ds, 1, Len(ds) - 1)) + DigitValue(ds[Len(ds)])

\* parseInt(s): white space, a sign, then the leading digits; NaN without digits
ParseInt(s) ==
    LET t == TrimStart(s)
        signed == t # <<>> /\ Head(t) \in {"-", "+"}
        body == IF signed THEN Tail(t) ELSE t
        run == DigitRun(body)
    IN  IF run = <<>> THEN NaN
        ELSE IF signed /\ Head(t) = "-" THEN 0 - DecimalValue(run)
        ELSE DecimalValue(run)

\* s.replace(/\D/g, ''): the digits of s
RECURSIVE StripNonDigits(_)
StripNonDigits(s) ==
    IF s = <<>> THEN <<>>
    ELSE (IF IsDigit(Head(s)) THEN <<Head(s)>> ELSE <<>>) \o StripNonDigits(Tail(s))

-----------------------------------------------------------------------------
(* The data of src/unnamed/part_001, lines 268-331 *)

\* enum SortPriority
NEWEST == "Newest First"

MOST_CITED == "Highly Cited"

HIGH_IMPACT == "High Impact Journal"

SortPriority == {NEWEST, MOST_CITED, HIGH_IMPACT}

\* enum DisapprovalReason
NOT_NEW == "not new"

NOT_RELEVANT == "not relevant"

LOW_IMPACT == "not highly cited"

UNWANTED_SOURCE == "unwanted source"

DisapprovalReason == {NOT_NEW, NOT_RELEVANT, LOW_IMPACT, UNWANTED_SOURCE}

\* string | null for activeSearchId: null
NoSession == 0

\* the value undefined of an optional string
Undefined == "undefined"

\* interface Reference: the fields the engine reads.  The state holds
\* references to these objects (their keys here), as the arrays of the program
\* do; no handler changes a field of one.  citationCount is optional: b comes
\* without it.
References ==
    [a |-> [title |-> <<"a">>, year |-> <<"2","0","1","9">>,
            publication |-> <<"A","c","m","e">>, citationCount |-> 40],
     b |-> [title |-> <<"b">>, year |-> <<"2","0","2","1">>,
            publication |-> <<" ","a","C","M","E"," ">>],
     c |-> [title |-> <<"c">>, year |-> <<"n",".","d">>,
            publication |-> <<"B","e","t","a">>, citationCount |-> 0],
     d |-> [title |-> <<"d">>, year |-> <<"2","0","2","0">>,
            publication |-> <<"D","e","l","t","a">>, citationCount |-> 5],
     e |-> [title |-> <<"e">>, year |-> <<"2","0","1","8">>,
            publication |-> <<"E","t","a">>, citationCount |-> 12],
     f |-> [title |-> <<"f">>, year |-> <<"2","0","2","2">>,
            publication |-> <<"P","h","i">>, citationCount |-> 3],
     g |-> [title |-> <<"g">>, year |-> <<"2","0","1","7">>,
            publication |-> <<"G","a","m","m","a">>],
     h |-> [title |-> <<"h">>, year |-> <<"2","0","2","3">>,
            publication |-> <<"C","h","i">>, citationCount |-> 1],
     i |-> [title |-> <<"i">>, year |-> <<"a","b","c">>,
            publication |-> <<"I","o","t","a">>, citationCount |-> 2],
     j |-> [title |-> <<"j">>, year |-> <<"2","0","1","9","-","0","5">>,
            publication |-> <<"J","o","t">>, citationCount |-> 7]]

\* the order in which the provider lists the references it knows
ProviderOrder == <<"c", "a", "b">>

\* what a fetch can resolve with: the first n references of ProviderOrder,
\* for every n (the provider need not honour excludeTitles)
ProviderResults == { SubSeq(ProviderOrder, 1, n) : n \in 0..Len(ProviderOrder) }

\* what a fetch can reject with: the Error that fetchReferences throws first
ErrNoKey == [isError |-> TRUE, message |-> "API Key is missing"]

ProviderErrors == {ErrNoKey}

\* interface SelectionContext: what handleSearch captures from the selection
\* when the user highlights the k-th passage of the text
Selection(k) ==
    [fullText |-> "text", highlightedText |-> k, precedingContext |-> k - 1]

\* the settings the user can leave the Search Parameters panel in: what is
\* typed into the Count field and what is chosen in the Priority field
PanelSettings ==
    { [numReferences |-> <<"1">>, priority |-> MOST_CITED],
      [numReferences |-> <<"2">>, priority |-> NEWEST],
      [numReferences |-> <<"-","1">>, priority |-> HIGH_IMPACT] }

\* r.citationCount || 0
CitationOrZero(r) ==
    IF "citationCount" \in DOMAIN References[r] THEN References[r].citationCount ELSE 0

\* whether an object has a key with a value other than undefined
Has(o, k) == k \in DOMAIN o /\ o[k] # Undefined

\* prev[searchId], spread: no key at all when the entry is missing
Entry(hist, id) == IF id \in DOMAIN hist THEN hist[id] ELSE <<>>

\* { ...prev, [id]: entry }
Put(hist, id, entry) ==
    [k \in DOMAIN hist \cup {id} |-> IF k = id THEN entry ELSE hist[k]]

\* Delete emptying the table
DeleteAll(hist, id) == <<>>

\* delete nextState[id]
Delete(hist, id) == [k \in DOMAIN hist \ {id} |-> hist[k]]

-----------------------------------------------------------------------------
(* Sorting *)

\* Array.prototype.sort with the comparator (a, b) => keyf[b] - keyf[a] on
\* numbers: descending, and stable
RECURSIVE SortDescBy(_, _)
SortDescBy(s, keyf) ==
    IF s = <<>> THEN <<>>
    ELSE LET init == SortDescBy(SubSeq(s, 1, Len(s) - 1), keyf)
             x == s[Len(s)]
             p == Cardinality({i \in DOMAIN init : keyf[init[i]] >= keyf[x]})
         IN  SubSeq(init, 1, p) \o <<x>> \o SubSeq(init, p + 1, Len(init))

\* parseInt(a.year.replace(/\D/g, '')) || 0
NewestKey(r) == JsOrZero(ParseInt(StripNonDigits(References[r].year)))

sortReferencesByPriority(refs, priority) ==
    IF priority = NEWEST
    THEN SortDescBy(refs, [r \in Range(refs) |-> NewestKey(r)])
    ELSE IF priority = MOST_CITED
    THEN SortDescBy(refs, [r \in Range(refs) |-> CitationOrZero(r)])
    ELSE refs

\* the arrangements of s
Arrangements(s) ==
    { [i \in DOMAIN s |-> s[f[i]]] : f \in Permutations(DOMAIN s) }

\* newPool.sort((a, b) => parseInt(b.year) - parseInt(a.year)): the orders the
\* sort can leave.  A comparison with NaN yields NaN, which sort takes for
\* "equal"; when that makes the comparator inconsistent (an unparsable year
\* beside two different years) the order is implementation-defined.
SortByRawYear(pool) ==
    LET keyf == [r \in Range(pool) |-> ParseInt(References[r].year)]
        keys == {keyf[r] : r \in Range(pool)}
    IN  IF NaN \notin keys THEN {SortDescBy(pool, keyf)}
        ELSE IF Cardinality(keys \ {NaN}) <= 1 THEN {pool}
        ELSE Arrangements(pool)

\* newPool.sort((a, b) => (b.citationCount || 0) - (a.citationCount || 0))
SortByCitations(pool) ==
    SortDescBy(pool, [r \in Range(pool) |-> CitationOrZero(r)])

-----------------------------------------------------------------------------
(* The state after construction: src/App.tsx, lines 734-756 *)

\* no call of fetchReferences is followed
Idle == [stage |-> "idle"]

\* what lastOp records of a callback that found (or did not find) its session
Outcome(present) == IF present THEN "done" ELSE "discarded"

Init ==
    /\ searchHistory = <<>>
    /\ activeSearchId = NoSession
    /\ prefs = [numReferences |-> 1, priority |-> MOST_CITED]
    /\ disapprovalHistory = <<>>
    /\ inflight = {}
    /\ now = 0
    /\ nextFetch = 1
    /\ lastOp = "done"
    /\ provider = Idle

-----------------------------------------------------------------------------
(* What the handlers and callbacks write *)

\* the call performFetch(context, currentPrefs, existingTitles) made by the
\* handler `kind` for session `id`: fetchReferences receives the preferences
\* with excludeTitles and the disapprovalHistory of the handler's render
Fetch(kind, id, context, currentPrefs, existingTitles) ==
    [fid |-> nextFetch, kind |-> kind, searchId |-> id, context |-> context,
     prefs |-> currentPrefs, excludeTitles |-> existingTitles,
     history |-> disapprovalHistory]

\* SessionPresent with the guard left out of the callbacks
SessionPresentUnguarded(hist, id) == TRUE

\* if (!prev[searchId]) return prev, negated
SessionPresent(hist, id) == id \in DOMAIN hist

\* the entry handleSearch inserts
NewEntry(id, p, context) ==
    [id |-> id, status |-> "loading", visible |-> <<>>, pool |-> <<>>,
     queryPrefs |-> p, context |-> context]

\* ResolvedEntry leaving the status as it was
ResolvedEntryStillLoading(entry, allResults, p) ==
    LET sortedResults == sortReferencesByPriority(allResults, p.priority)
    IN  [visible |-> Slice(sortedResults, 0, p.numReferences),
         pool |-> SliceFrom(sortedResults, p.numReferences)] @@ entry

\* the entry the .then of handleSearch and of handleRetry writes; p is the
\* prefs of the render the handler ran in
ResolvedEntry(entry, allResults, p) ==
    LET sortedResults == sortReferencesByPriority(allResults, p.priority)
    IN  [status |-> "success",
         visible |-> Slice(sortedResults, 0, p.numReferences),
         pool |-> SliceFrom(sortedResults, p.numReferences)] @@ entry

\* err instanceof Error ? err.message : fallback
ErrorMessage(err, fallback) == IF err.isError THEN err.message ELSE fallback

\* the entry the .catch of handleSearch and of handleRetry writes
RejectedEntry(entry, err, fallback) ==
    [status |-> "error", errorMessage |-> ErrorMessage(err, fallback)] @@ entry

\* RetryContext taking the selection anew instead of the stored context
RetryContextReselected(entry) == Selection(now + 1)

\* the context handleRetry fetches with
RetryContext(entry) == entry.context

\* RetryEntry without errorMessage: undefined
RetryEntryKeepingMessage(entry, p) ==
    [status |-> "loading", queryPrefs |-> p] @@ entry

\* RetryEntry repeating the search with the preferences the session has
RetryEntryKeepingPrefs(entry, p) ==
    [status |-> "loading", errorMessage |-> Undefined] @@ entry

\* the entry handleRetry writes before it fetches
RetryEntry(entry, p) ==
    [status |-> "loading", errorMessage |-> Undefined, queryPrefs |-> p] @@ entry

\* PurgeUnwanted comparing the publications as they are written
PurgeUnwantedVerbatim(pool, removedRef) ==
    Filter(pool, {ref \in Range(pool) :
                    References[ref].publication # References[removedRef].publication})

\* newPool after the filter of handleDisapprove
PurgeUnwanted(pool, removedRef) ==
    LET unwantedSource == Trim(ToLowerCase(References[removedRef].publication))
    IN  Filter(pool, {ref \in Range(pool) :
                        Trim(ToLowerCase(References[ref].publication)) # unwantedSource})

\* ReRank leaving the pool as it is for every reason
ReRankNever(newPool, reason) == {newPool}

\* the orders the re-ranking for the replacement can leave newPool in
ReRank(newPool, reason) ==
    IF reason = NOT_NEW THEN SortByRawYear(newPool)
    ELSE IF reason = LOW_IMPACT THEN {SortByCitations(newPool)}
    ELSE {newPool}

\* InsertReplacement pushing the replacement at the end of the list
InsertReplacementAtEnd(newVisible, indexToRemove, replacement) ==
    Append(newVisible, replacement)

\* newVisible.splice(indexToRemove, 0, replacement)
InsertReplacement(newVisible, indexToRemove, replacement) ==
    SpliceInsert(newVisible, indexToRemove, replacement)

\* NeedsRefill refilling already when a single candidate is left
NeedsRefillAtOne(newPool) == Len(newPool) <= 1

\* if (newPool.length === 0)
NeedsRefill(newPool) == Len(newPool) = 0

\* the preferences the refill fetches with
RefillPrefs(entry) == entry.queryPrefs

\* [...newVisible, ...pool].map(r => r.title)
ExistingTitles(newVisible, pool) ==
    [i \in DOMAIN (newVisible \o pool) |-> References[(newVisible \o pool)[i]].title]

\* RefilledEntry leaving isRefilling as it was when no card slot was free
RefilledEntryBusyWhenFull(current, moreResults, queryPrefs) ==
    LET updatedVisible == current.visible
    IN  IF JsLt(Len(updatedVisible), queryPrefs.numReferences) /\ Len(moreResults) > 0
        THEN LET needed == JsSub(queryPrefs.numReferences, Len(updatedVisible))
                 toAdd == Slice(moreResults, 0, needed)
                 toPool == SliceFrom(moreResults, needed)
             IN  [visible |-> updatedVisible \o toAdd, pool |-> toPool,
                  isRefilling |-> FALSE] @@ current
        ELSE [pool |-> moreResults] @@ current

\* the entry the refill writes when it resolves; queryPrefs is the one
\* handleDisapprove read
RefilledEntry(current, moreResults, queryPrefs) ==
    LET updatedVisible == current.visible
    IN  IF JsLt(Len(updatedVisible), queryPrefs.numReferences) /\ Len(moreResults) > 0
        THEN LET needed == JsSub(queryPrefs.numReferences, Len(updatedVisible))
                 toAdd == Slice(moreResults, 0, needed)
                 toPool == SliceFrom(moreResults, needed)
             IN  [visible |-> updatedVisible \o toAdd, pool |-> toPool,
                  isRefilling |-> FALSE] @@ current
        ELSE [pool |-> moreResults, isRefilling |-> FALSE] @@ current

\* RefillFailedEntry without isRefilling: false
RefillFailedStillRefilling(current) == current

\* RefillFailedEntry showing the failure to the user
RefillFailedWithMessage(current) ==
    [errorMessage |-> "Failed to refill references", isRefilling |-> FALSE] @@ current

\* RefillFailedEntry reporting the failure as the .catch of a search does
RefillFailedAsError(current) ==
    [status |-> "error", isRefilling |-> FALSE] @@ current

\* the entry the refill writes when it rejects
RefillFailedEntry(current) == [isRefilling |-> FALSE] @@ current

\* the value handleInputChange stores for the Count field
CappedCount(value) ==
    LET val == ParseInt(value)
    IN  IF JsGt(val, 5) THEN 5 ELSE val

-----------------------------------------------------------------------------
(* The handlers of App *)

\* handleInputChange for name = 'numReferences' and for name = 'priority':
\* the user sets the two fields of the panel one after the other.  (Only
\* handleSearch and handleRetry read prefs, so nothing can observe the
\* setting in between.)
ChangePanel(count, priority) ==
    /\ prefs' = [[prefs EXCEPT !.numReferences = CappedCount(count)]
                   EXCEPT !.priority = priority]
    /\ lastOp' = "done"
    /\ UNCHANGED <<provider, searchHistory, activeSearchId, disapprovalHistory,
                   inflight, now, nextFetch>>

\* handleEditorClick on the highlight span of session id
HandleEditorClick(id) ==
    /\ activeSearchId' = id
    /\ lastOp' = "done"
    /\ UNCHANGED <<provider, searchHistory, prefs, disapprovalHistory, inflight, now,
                   nextFetch>>

\* handleSearch with a valid selection, Date.now() reading `reading`: the id
\* search-${Date.now()} is the reading of the clock
HandleSearchAt(context, reading) ==
    /\ now' = reading
    /\ LET searchId == reading
       IN  /\ searchHistory' = Put(searchHistory, searchId, NewEntry(searchId, prefs, context))
           /\ activeSearchId' = searchId
           /\ inflight' = inflight \cup {Fetch("search", searchId, context, prefs, <<>>)}
           /\ lastOp' = "done"
    /\ nextFetch' = nextFetch + 1
    /\ UNCHANGED <<provider, prefs, disapprovalHistory>>

\* handleSearch with a valid selection.  The clock has advanced since the
\* previous search: the id search-${Date.now()} is the reading of the clock.
HandleSearch(context) == HandleSearchAt(context, now + 1)

\* handleRetry
HandleRetry ==
    IF activeSearchId = NoSession \/ ~SessionPresent(searchHistory, activeSearchId)
    THEN /\ lastOp' = "done"
         /\ UNCHANGED <<provider, searchHistory, activeSearchId, prefs, disapprovalHistory,
                        inflight, now, nextFetch>>
    ELSE /\ LET searchId == activeSearchId
                context == RetryContext(searchHistory[activeSearchId])
            IN  /\ searchHistory' = Put(searchHistory, searchId,
                                        RetryEntry(Entry(searchHistory, searchId), prefs))
                /\ inflight' = inflight \cup {Fetch("retry", searchId, context, prefs, <<>>)}
                /\ lastOp' = "done"
         /\ nextFetch' = nextFetch + 1
         /\ UNCHANGED <<provider, activeSearchId, prefs, disapprovalHistory, now>>

\* handleClear
HandleClear ==
    IF activeSearchId = NoSession
    THEN /\ lastOp' = "done"
         /\ UNCHANGED <<provider, searchHistory, activeSearchId, prefs, disapprovalHistory,
                        inflight, now, nextFetch>>
    ELSE /\ searchHistory' = Delete(searchHistory, activeSearchId)
         /\ activeSearchId' = NoSession
         /\ lastOp' = "done"
         /\ UNCHANGED <<provider, prefs, disapprovalHistory, inflight, now, nextFetch>>

\* handleDisapprove, up to its await
HandleDisapprove(indexToRemove, reason) ==
    IF activeSearchId = NoSession \/ ~SessionPresent(searchHistory, activeSearchId)
    THEN /\ lastOp' = "done"
         /\ UNCHANGED <<provider, searchHistory, activeSearchId, prefs, disapprovalHistory,
                        inflight, now, nextFetch>>
    ELSE LET currentData == searchHistory[activeSearchId]
             visible == currentData.visible
             pool == currentData.pool
             context == currentData.context
             hasRemoved == HasIndex(visible, indexToRemove)
             removed == SpliceDelete(visible, indexToRemove)
             filtered == IF reason = UNWANTED_SOURCE /\ hasRemoved
                         THEN PurgeUnwanted(pool, visible[indexToRemove + 1])
                         ELSE pool
         IN  \E ranked \in (IF Len(filtered) > 0 THEN ReRank(filtered, reason) ELSE {filtered}) :
               LET newPool == IF Len(filtered) > 0 THEN Tail(ranked) ELSE filtered
                   newVisible == IF Len(filtered) > 0
                                 THEN InsertReplacement(removed, indexToRemove, Head(ranked))
                                 ELSE removed
                   updated == [visible |-> newVisible, pool |-> newPool] @@ currentData
               IN  /\ IF hasRemoved
                      THEN disapprovalHistory' = Append(disapprovalHistory,
                                  [reference |-> visible[indexToRemove + 1],
                                   reason |-> reason, timestamp |-> now])
                      ELSE UNCHANGED disapprovalHistory
                   /\ IF NeedsRefill(newPool)
                      THEN /\ searchHistory' = Put(searchHistory, activeSearchId,
                                                   [isRefilling |-> TRUE] @@ updated)
                           /\ inflight' = inflight \cup
                                 {Fetch("refill", activeSearchId, context,
                                        RefillPrefs(currentData),
                                        ExistingTitles(newVisible, pool))}
                           /\ nextFetch' = nextFetch + 1
                      ELSE /\ searchHistory' = Put(searchHistory, activeSearchId, updated)
                           /\ UNCHANGED <<inflight, nextFetch>>
                   /\ lastOp' = "done"
                   /\ UNCHANGED <<provider, activeSearchId, prefs, now>>

-----------------------------------------------------------------------------
(* The callbacks of the fetches *)

\* .then of handleSearch (lines 901-921) and of handleRetry (lines 956-975)
SearchResolved(f, allResults) ==
    /\ f \in inflight
    /\ f.kind \in {"search", "retry"}
    /\ inflight' = inflight \ {f}
    /\ searchHistory' =
         IF ~SessionPresent(searchHistory, f.searchId) THEN searchHistory
         ELSE Put(searchHistory, f.searchId,
                  ResolvedEntry(Entry(searchHistory, f.searchId), allResults, f.prefs))
    /\ lastOp' = Outcome(SessionPresent(searchHistory, f.searchId))
    /\ UNCHANGED <<provider, activeSearchId, prefs, disapprovalHistory, now, nextFetch>>

\* .catch of handleSearch (lines 922-934) and of handleRetry (lines 976-988)
SearchRejected(f, err) ==
    /\ f \in inflight
    /\ f.kind \in {"search", "retry"}
    /\ inflight' = inflight \ {f}
    /\ searchHistory' =
         IF ~SessionPresent(searchHistory, f.searchId) THEN searchHistory
         ELSE Put(searchHistory, f.searchId,
                  RejectedEntry(Entry(searchHistory, f.searchId), err,
                                IF f.kind = "search" THEN "An unexpected error occurred."
                                ELSE "Retry failed"))
    /\ lastOp' = Outcome(SessionPresent(searchHistory, f.searchId))
    /\ UNCHANGED <<provider, activeSearchId, prefs, disapprovalHistory, now, nextFetch>>

\* handleDisapprove after its await, the fetch having resolved (lines 1084-1116)
RefillResolved(f, moreResults) ==
    /\ f \in inflight
    /\ f.kind = "refill"
    /\ inflight' = inflight \ {f}
    /\ searchHistory' =
         IF ~SessionPresent(searchHistory, f.searchId) THEN searchHistory
         ELSE Put(searchHistory, f.searchId,
                  RefilledEntry(Entry(searchHistory, f.searchId), moreResults, f.prefs))
    /\ lastOp' = Outcome(SessionPresent(searchHistory, f.searchId))
    /\ UNCHANGED <<provider, activeSearchId, prefs, disapprovalHistory, now, nextFetch>>

\* handleDisapprove after its await, the fetch having rejected (lines 1118-1127)
RefillRejected(f) ==
    /\ f \in inflight
    /\ f.kind = "refill"
    /\ inflight' = inflight \ {f}
    /\ searchHistory' =
         IF ~SessionPresent(searchHistory, f.searchId) THEN searchHistory
         ELSE Put(searchHistory, f.searchId,
                  RefillFailedEntry(Entry(searchHistory, f.searchId)))
    /\ lastOp' = IF SessionPresent(searchHistory, f.searchId)
                 THEN "refillFailed" ELSE "discarded"
    /\ UNCHANGED <<provider, activeSearchId, prefs, disapprovalHistory, now, nextFetch>>

-----------------------------------------------------------------------------
(* What the rendered page lets the user do: src/App.tsx, lines 1195-1511 *)

\* activeData is not null
HasActiveData ==
    activeSearchId # NoSession /\ SessionPresent(searchHistory, activeSearchId)

\* isCurrentLoading
isCurrentLoading ==
    HasActiveData /\ searchHistory[activeSearchId].status = "loading"

\* currentReferences
currentReferences ==
    IF HasActiveData THEN searchHistory[activeSearchId].visible ELSE <<>>

\* the indexes of the reference cards on the page
CardIndexes ==
    IF isCurrentLoading THEN {} ELSE {i - 1 : i \in DOMAIN currentReferences}

\* the user highlights the next passage and clicks Find References
Search ==
    /\ now < MaxSearches
    /\ nextFetch <= MaxFetches
    /\ HandleSearch(Selection(now + 1))

EditPanel ==
    \E setting \in PanelSettings :
        /\ ChangePanel(setting.numReferences, setting.priority)
        /\ prefs' # prefs

ClickHighlight == \E id \in DOMAIN searchHistory : HandleEditorClick(id)

\* the Retry button is rendered with activeData and disabled while loading
ClickRetry ==
    /\ HasActiveData
    /\ ~isCurrentLoading
    /\ nextFetch <= MaxFetches
    /\ HandleRetry

\* the Clear button is rendered with activeData
ClickClear == HasActiveData /\ HandleClear

\* a reason chosen on one of the reference cards
ClickDisapprove ==
    /\ Len(disapprovalHistory) < MaxDisapprovals
    /\ \E index \in CardIndexes : \E reason \in DisapprovalReason :
          /\ HandleDisapprove(index, reason)
          /\ nextFetch' <= MaxFetches + 1

FetchResolves ==
    \E f \in inflight : \E results \in ProviderResults :
        SearchResolved(f, results) \/ RefillResolved(f, results)

FetchRejects ==
    \E f \in inflight : \E err \in ProviderErrors :
        SearchRejected(f, err) \/ RefillRejected(f)

Next ==
    \/ Search
    \/ EditPanel
    \/ ClickHighlight
    \/ ClickRetry
    \/ ClickClear
    \/ ClickDisapprove
    \/ FetchResolves
    \/ FetchRejects

Spec == Init /\ [][Next]_vars

-----------------------------------------------------------------------------
(* The handlers called directly, whatever the page renders: with any index,
   with or without an active session, while a fetch is outstanding *)

\* the indexes handleDisapprove is called with: one before the first card to
\* one after the place behind the last
IndexInputs == (0 - 1) .. (Len(currentReferences) + 1)

CallRetry == nextFetch <= MaxFetches /\ HandleRetry

CallClear == HandleClear

CallDisapprove ==
    \E index \in IndexInputs : \E reason \in DisapprovalReason :
        /\ HandleDisapprove(index, reason)
        /\ Len(disapprovalHistory') <= MaxDisapprovals
        /\ nextFetch' <= MaxFetches + 1

NextHandlers ==
    \/ Search
    \/ EditPanel
    \/ ClickHighlight
    \/ CallRetry
    \/ CallClear
    \/ CallDisapprove
    \/ FetchResolves
    \/ FetchRejects

SpecHandlers == Init /\ [][NextHandlers]_vars

-----------------------------------------------------------------------------
(* The rendered page again, within other bounds: long enough for a retry to
   overtake a refill and for a second refill to be issued while the first is
   outstanding *)

\* calls of performFetch in SpecRaces
RaceFetches == 3

\* references the user disapproves in SpecRaces
RaceDisapprovals == 2

SearchWithin(searches, fetches) ==
    /\ now < searches
    /\ nextFetch <= fetches
    /\ HandleSearch(Selection(now + 1))

ClickRetryWithin(fetches) ==
    /\ HasActiveData
    /\ ~isCurrentLoading
    /\ nextFetch <= fetches
    /\ HandleRetry

ClickDisapproveWithin(fetches, disapprovals) ==
    /\ Len(disapprovalHistory) < disapprovals
    /\ \E index \in CardIndexes : \E reason \in DisapprovalReason :
          /\ HandleDisapprove(index, reason)
          /\ nextFetch' <= fetches + 1

RaceSearch == SearchWithin(MaxSearches, RaceFetches)

RaceRetry == ClickRetryWithin(RaceFetches)

RaceDisapprove == ClickDisapproveWithin(RaceFetches, RaceDisapprovals)

NextRaces ==
    \/ RaceSearch
    \/ EditPanel
    \/ ClickHighlight
    \/ RaceRetry
    \/ ClickClear
    \/ RaceDisapprove
    \/ FetchResolves
    \/ FetchRejects

SpecRaces == Init /\ [][NextRaces]_vars

-----------------------------------------------------------------------------
(* The rendered page with a provider that answers: fetchReferences awaits the
   provider and the verification, and every call of it settles, resolved or
   rejected.  The user leaves the Search Parameters panel as it is. *)

FetchSettles == FetchResolves \/ FetchRejects

NextFixedPanel ==
    \/ Search
    \/ ClickHighlight
    \/ ClickRetry
    \/ ClickClear
    \/ ClickDisapprove
    \/ FetchResolves
    \/ FetchRejects

SpecFair == Init /\ [][NextFixedPanel]_vars /\ WF_vars(FetchSettles)

-----------------------------------------------------------------------------
(* One session with Count 2 that is handed five candidates, whose cards the
   user disapproves one after the other, and whose refills bring three new
   references *)

\* references the user disapproves in SpecScenario
ScenarioDisapprovals == 3

\* what the search resolves with, and what a refill resolves with
FiveCandidates == <<"c", "a", "b", "d", "e">>

ThreeNew == <<"f", "g", "h">>

\* the panel was set to Count 2 and to some priority before the search
ScenarioInit ==
    /\ searchHistory = <<>>
    /\ activeSearchId = NoSession
    /\ prefs \in {[numReferences |-> CappedCount(<<"2">>), priority |-> p] : p \in SortPriority}
    /\ disapprovalHistory = <<>>
    /\ inflight = {}
    /\ now = 0
    /\ nextFetch = 1
    /\ lastOp = "done"
    /\ provider = Idle

ScenarioSearch == now = 0 /\ HandleSearch(Selection(now + 1))

ScenarioSearchResolves ==
    \E f \in inflight : SearchResolved(f, FiveCandidates)

ScenarioDisapprove ==
    /\ Len(disapprovalHistory) < ScenarioDisapprovals
    /\ \E index \in CardIndexes : \E reason \in DisapprovalReason :
          HandleDisapprove(index, reason)

ScenarioRefillResolves ==
    \E f \in inflight : RefillResolved(f, ThreeNew)

NextScenario ==
    \/ ScenarioSearch
    \/ ScenarioSearchResolves
    \/ ScenarioDisapprove
    \/ ScenarioRefillResolves

SpecScenario == ScenarioInit /\ [][NextScenario]_vars

-----------------------------------------------------------------------------
(* Two sessions side by side: the user searches twice, moves between the
   highlights, and retries, clears and disapproves in the session shown *)

\* searches and fetches of SpecPair
PairSearches == 2

PairFetches == 2

PairSearch == SearchWithin(PairSearches, PairFetches)

PairRetry == ClickRetryWithin(PairFetches)

PairDisapprove == ClickDisapproveWithin(PairFetches, MaxDisapprovals)

NextPair ==
    \/ PairSearch
    \/ ClickHighlight
    \/ PairRetry
    \/ ClickClear
    \/ PairDisapprove
    \/ FetchResolves
    \/ FetchRejects

SpecPair == Init /\ [][NextPair]_vars

\* the two sessions with a provider that answers every fetch in the end
SpecPairFair == Init /\ [][NextPair]_vars /\ WF_vars(FetchSettles)

-----------------------------------------------------------------------------
(* The Reference Provider: src/unnamed/part_001, lines 8-37 and 128-265 *)

\* String.prototype.indexOf(c), for a character c
IndexOf(s, c) ==
    IF \E i \in DOMAIN s : s[i] = c
    THEN (CHOOSE i \in DOMAIN s : s[i] = c /\ \A j \in 1..(i - 1) : s[j] # c) - 1
    ELSE -1

\* String.prototype.lastIndexOf(c)
LastIndexOf(s, c) ==
    IF \E i \in DOMAIN s : s[i] = c
    THEN (CHOOSE i \in DOMAIN s : s[i] = c /\ \A j \in (i + 1)..Len(s) : s[j] # c) - 1
    ELSE -1

\* String.prototype.substring(start, end): both clamped to the string, and
\* swapped when start is the greater
Substring(s, start, end) ==
    LET a == Min(Max(start, 0), Len(s))
        b == Min(Max(end, 0), Len(s))
    IN  SubSeq(s, Min(a, b) + 1, Max(a, b))

\* String.prototype.replace(/pattern/g, ''): what is before the first
\* occurrence of the pattern, and the rest with its occurrences removed
RECURSIVE RemoveAll(_, _)
RemoveAll(s, pattern) ==
    LET at == {i \in 1..(Len(s) - Len(pattern) + 1) :
                  SubSeq(s, i, i + Len(pattern) - 1) = pattern}
        first == CHOOSE i \in at : \A j \in at : i <= j
    IN  IF at = {} THEN s
        ELSE SubSeq(s, 1, first - 1)
             \o RemoveAll(SubSeq(s, first + Len(pattern), Len(s)), pattern)

\* the fence of a code block; the backtick is written ^, a TLA+ string
\* holding no backtick
Fence == <<"^", "^", "^">>

JsonFence == Fence \o <<"j", "s", "o", "n">>

\* what a function returns or throws
Returns(value) == [throws |-> FALSE, value |-> value]

Throws == [throws |-> TRUE, value |-> <<>>]

\* the characters of a string written as a TLA+ string
Chars(str) == [i \in 1..Len(str) |-> SubSeq(str, i, i)]

\* the TLA+ string of a sequence of characters: the name of an object's key
RECURSIVE KeyName(_)
KeyName(s) == IF s = <<>> THEN "" ELSE Head(s) \o KeyName(Tail(s))

\* what a step of JSON.parse gives: a value and the text after it, or nothing
Parsed(value, rest) == [ok |-> TRUE, value |-> value, rest |-> rest]

NotParsed == [ok |-> FALSE, value |-> <<>>, rest |-> <<>>]

\* a JSON string: a quote, characters without quote, backslash or line break,
\* a quote (escapes are not modelled: no text of the model holds one)
ParseString(s) ==
    IF s = <<>> \/ Head(s) # "\"" THEN NotParsed
    ELSE LET close == IndexOf(Tail(s), "\"")
             body == SubSeq(Tail(s), 1, close)
         IN  IF close < 0 \/ Range(body) \cap {"\\", "\n", "\t"} # {} THEN NotParsed
             ELSE Parsed(body, SubSeq(Tail(s), close + 2, Len(Tail(s))))

\* a JSON number: an integer, with or without a minus sign
ParseNumber(s) ==
    LET negative == s # <<>> /\ Head(s) = "-"
        body == IF negative THEN Tail(s) ELSE s
        run == DigitRun(body)
        rest == SubSeq(body, Len(run) + 1, Len(body))
    IN  IF run = <<>> \/ (Len(run) > 1 /\ Head(run) = "0") THEN NotParsed
        ELSE Parsed(IF negative THEN 0 - DecimalValue(run) ELSE DecimalValue(run), rest)

\* a JSON value: a string is a sequence of characters, a number an integer,
\* an array a sequence, an object a function of the names of its keys (the
\* literals true, false and null are not modelled)
RECURSIVE ParseValue(_), ParseElements(_, _), ParseMembers(_, _)
ParseValue(text) ==
    LET s == TrimStart(text)
    IN  IF s = <<>> THEN NotParsed
        ELSE IF Head(s) = "\"" THEN ParseString(s)
        ELSE IF Head(s) = "["
             THEN LET t == TrimStart(Tail(s))
                  IN  IF t # <<>> /\ Head(t) = "]" THEN Parsed(<<>>, Tail(t))
                      ELSE ParseElements(t, <<>>)
        ELSE IF Head(s) = "{"
             THEN LET t == TrimStart(Tail(s))
                  IN  IF t # <<>> /\ Head(t) = "}" THEN Parsed(<<>>, Tail(t))
                      ELSE ParseMembers(t, <<>>)
        ELSE ParseNumber(s)

\* the elements of an array after its bracket, up to the closing bracket
ParseElements(s, elements) ==
    LET v == ParseValue(s)
        t == TrimStart(v.rest)
    IN  IF ~v.ok \/ t = <<>> THEN NotParsed
        ELSE IF Head(t) = "," THEN ParseElements(Tail(t), Append(elements, v.value))
        ELSE IF Head(t) = "]" THEN Parsed(Append(elements, v.value), Tail(t))
        ELSE NotParsed

\* the members of an object after its brace, up to the closing brace; of two
\* members of one name the later one stays
ParseMembers(s, members) ==
    LET k == ParseString(TrimStart(s))
        c == TrimStart(k.rest)
        v == ParseValue(Tail(c))
        t == TrimStart(v.rest)
        object == (KeyName(k.value) :> v.value) @@ members
    IN  IF ~k.ok \/ c = <<>> \/ Head(c) # ":" THEN NotParsed
        ELSE IF ~v.ok \/ t = <<>> THEN NotParsed
        ELSE IF Head(t) = "," THEN ParseMembers(Tail(t), object)
        ELSE IF Head(t) = "}" THEN Parsed(object, Tail(t))
        ELSE NotParsed

\* JSON.parse: one value and nothing but white space after it, or a throw
JsonParse(text) ==
    LET v == ParseValue(text)
    IN  IF v.ok /\ TrimStart(v.rest) = <<>> THEN Returns(v.value) ELSE Throws

\* extractAndParseJSON cutting the truncated text before its last brace
extractAndParseJSONBeforeBrace(text) ==
    IF text = <<>> THEN Returns(<<>>)
    ELSE LET cleanText == Trim(RemoveAll(RemoveAll(text, JsonFence), Fence))
             start == IndexOf(cleanText, "[")
             end == LastIndexOf(cleanText, "]")
             lastBrace == LastIndexOf(cleanText, "}")
         IN  IF end < start
             THEN IF lastBrace > start
                  THEN JsonParse(Substring(cleanText, start, lastBrace) \o <<"]">>)
                  ELSE Throws
             ELSE JsonParse(Substring(cleanText, start, end + 1))

\* extractAndParseJSON
extractAndParseJSON(text) ==
    IF text = <<>> THEN Returns(<<>>)
    ELSE LET cleanText == Trim(RemoveAll(RemoveAll(text, JsonFence), Fence))
             start == IndexOf(cleanText, "[")
             end == LastIndexOf(cleanText, "]")
             lastBrace == LastIndexOf(cleanText, "}")
         IN  IF end < start
             THEN IF lastBrace > start
                  THEN JsonParse(Substring(cleanText, start, lastBrace + 1) \o <<"]">>)
                  ELSE Throws
             ELSE JsonParse(Substring(cleanText, start, end + 1))

\* the Errors that fetchReferences throws, and what generateContent rejects
\* with: an Error of the client library, or a value that is no Error
ErrNoResponse == [isError |-> TRUE, message |-> "No response received from Gemini"]

ErrParse ==
    [isError |-> TRUE,
     message |-> "Failed to parse references from AI response. The model might have returned unstructured text."]

ErrProvider == [isError |-> TRUE, message |-> "got status: 503 UNAVAILABLE"]

NotAnError == [isError |-> FALSE, message |-> Undefined]

\* customApiKey || process.env.API_KEY || ''
ApiKeys == {<<>>, <<" ">>, <<"k">>}

\* response.text of some answers of the model
Texts ==
    { <<>>,
      Chars("sorry"),
      Chars("]"),
      Chars("[{"),
      Chars("[{\"title\":\"a\"},{\"title\":\"b"),
      Chars("[]"),
      JsonFence \o Chars("\n[{\"title\":\"c\"},{\"title\":\"a\"}]\n") \o Fence }

\* what generateContent does: it rejects, or it resolves with a response
ProviderReplies ==
    {[rejects |-> TRUE, error |-> e, text |-> <<>>] : e \in {ErrProvider, NotAnError}}
    \cup {[rejects |-> FALSE, error |-> NotAnError, text |-> t] : t \in Texts}

\* fetchReferences returning no references when the text does not parse
fetchReferencesLenient(apiKey, reply) ==
    IF Trim(apiKey) = <<>> THEN [rejects |-> TRUE, error |-> ErrNoKey]
    ELSE IF reply.rejects THEN [rejects |-> TRUE, error |-> reply.error]
    ELSE IF reply.text = <<>> THEN [rejects |-> TRUE, error |-> ErrNoResponse]
    ELSE [rejects |-> FALSE, error |-> NotAnError]

\* fetchReferences, as far as its rejection goes: whether the promise rejects
\* and with what (what it resolves with is left to verifyReferences)
fetchReferences(apiKey, reply) ==
    IF Trim(apiKey) = <<>> THEN [rejects |-> TRUE, error |-> ErrNoKey]
    ELSE IF reply.rejects THEN [rejects |-> TRUE, error |-> reply.error]
    ELSE IF reply.text = <<>> THEN [rejects |-> TRUE, error |-> ErrNoResponse]
    ELSE IF extractAndParseJSON(reply.text).throws THEN [rejects |-> TRUE, error |-> ErrParse]
    ELSE [rejects |-> FALSE, error |-> NotAnError]

\* the ways fetchReferences ends, over the keys and the replies
ProviderOutcomes ==
    {fetchReferences(apiKey, reply) : apiKey \in ApiKeys, reply \in ProviderReplies}

\* a fetch settles as fetchReferences does with some key and some reply
ProviderSettles ==
    \E f \in inflight : \E outcome \in ProviderOutcomes :
            IF outcome.rejects
            THEN SearchRejected(f, outcome.error) \/ RefillRejected(f)
            ELSE \E results \in ProviderResults :
                    SearchResolved(f, results) \/ RefillResolved(f, results)

NextProvider ==
    \/ Search
    \/ ClickHighlight
    \/ ClickRetry
    \/ ClickClear
    \/ ClickDisapprove
    \/ ProviderSettles

SpecProvider == Init /\ [][NextProvider]_vars

-----------------------------------------------------------------------------
(* One call of fetchReferences followed from its start to its end: the key, *)
(* the answer of the model, the parse, the verification pass and the merge: *)
(* src/unnamed/part_001, lines 8-126 and 128-265                            *)

\* String.prototype.includes
Includes(s, sub) ==
    \E i \in 0..(Len(s) - Len(sub)) : SubSeq(s, i + 1, i + Len(sub)) = sub

\* \w: the letters, the digits and the underscore
WordChars == Range(Lower) \cup Range(Upper) \cup Range(Digits) \cup {"_"}

\* title.toLowerCase().replace(/[^\w]/g, '')
NormalizeTitle(title) == Filter(ToLowerCase(title), WordChars)

\* the fields the verification pass may correct
Adopted == {"url", "title", "year"}

\* o[k] is a string and not the empty one: what makes o[k] || ... take o[k]
Truthy(o, k) == k \in DOMAIN o /\ o[k] # <<>>

\* MergedReference taking every field the confirmed item has: { ...original,
\* ...valRef }
MergedReferenceAdoptingAll(original, valRef) ==
    [k \in DOMAIN original \cup DOMAIN valRef |->
        IF k \in DOMAIN valRef THEN valRef[k] ELSE original[k]]

\* MergedReference keeping the title of the original
MergedReferenceKeepingTitle(original, valRef) ==
    [k \in DOMAIN original \cup {a \in Adopted \ {"title"} : Truthy(valRef, a)} |->
        IF k \in Adopted \ {"title"} /\ Truthy(valRef, k) THEN valRef[k] ELSE original[k]]

\* { ...original, url: valRef.url || original.url,
\*   title: valRef.title || original.title, year: valRef.year || original.year }
MergedReference(original, valRef) ==
    [k \in DOMAIN original \cup {a \in Adopted : Truthy(valRef, a)} |->
        IF k \in Adopted /\ Truthy(valRef, k) THEN valRef[k] ELSE original[k]]

\* references.find(r => normalized title of r includes valTitle, or valTitle
\* includes it): the first such reference in a sequence of one, the empty
\* sequence when there is none; r.title.toLowerCase() throws on a reference
\* without title that the search comes to
RECURSIVE FindOriginal(_, _)
FindOriginal(references, valTitle) ==
    IF references = <<>> THEN Returns(<<>>)
    ELSE LET r == Head(references)
         IN  IF "title" \notin DOMAIN r THEN Throws
             ELSE IF \/ Includes(NormalizeTitle(r.title), valTitle)
                     \/ Includes(valTitle, NormalizeTitle(r.title))
                  THEN Returns(<<r>>)
                  ELSE FindOriginal(Tail(references), valTitle)

\* the loop over validatedShortRefs; valRef.title.toLowerCase() throws on a
\* confirmed item without title
RECURSIVE MergeConfirmed(_, _, _)
MergeConfirmed(references, validatedShortRefs, finalRefs) ==
    IF validatedShortRefs = <<>> THEN Returns(finalRefs)
    ELSE LET valRef == Head(validatedShortRefs)
             original == FindOriginal(references, NormalizeTitle(valRef.title))
         IN  IF "title" \notin DOMAIN valRef \/ original.throws THEN Throws
             ELSE MergeConfirmed(references, Tail(validatedShortRefs),
                                 IF original.value = <<>> THEN finalRefs
                                 ELSE Append(finalRefs,
                                             MergedReference(original.value[1], valRef)))

\* verifyReferences, reply being what its generateContent does.  What
\* extractAndParseJSON returns without throwing is an array, so the test
\* Array.isArray of line 92 always passes.
verifyReferences(references, reply) ==
    IF Len(references) = 0 THEN <<>>
    ELSE IF reply.rejects THEN references
    ELSE LET validatedShortRefs == extractAndParseJSON(reply.text)
             finalRefs == MergeConfirmed(references, validatedShortRefs.value, <<>>)
         IN  IF validatedShortRefs.throws \/ finalRefs.throws THEN references
             ELSE finalRefs.value

\* the text of the array of the objects of these texts
RECURSIVE Joined(_)
Joined(texts) ==
    IF texts = <<>> THEN <<>>
    ELSE IF Len(texts) = 1 THEN texts[1]
    ELSE texts[1] \o <<",">> \o Joined(Tail(texts))

ArrayText(objects) == <<"[">> \o Joined(objects) \o <<"]">>

\* what is left of a text that was cut off somewhere
Truncations(text) == {SubSeq(text, 1, n) : n \in 0..(Len(text) - 1)}

\* objects without arrays in them, and objects as the prompt asks for them,
\* with a list of authors
FlatObjects == <<Chars("{\"a\":1}"), Chars("{\"a\":2}")>>

NestedObjects ==
    <<Chars("{\"title\":\"a\",\"authors\":[\"x\"]}"),
      Chars("{\"title\":\"b\",\"authors\":[\"y\",\"z\"]}")>>

\* the fenced answer that was cut off after its second object
FencedTruncated == JsonFence \o Chars("\n[{\"a\":1},{\"a\":2}\n")

\* answers with candidates for the verification pass
OneCandidate == Chars("[{\"title\":\"Deep Learning for X\",\"citationCount\":40}]")

TwoCandidates ==
    Chars("[{\"title\":\"Deep Learning for X\",\"citationCount\":40,")
    \o Chars("\"url\":\"http://old\",\"year\":\"2019\",\"summary\":\"s\",")
    \o Chars("\"relevance\":\"r\",\"authors\":[\"A\"],\"publication\":\"P\"},")
    \o Chars("{\"title\":\"Graph_Theory\",\"year\":\"2020\"}]")

\* response.text of the first call of the model
PrimaryTexts ==
    Texts \cup Truncations(ArrayText(FlatObjects)) \cup Truncations(ArrayText(NestedObjects))
    \cup {ArrayText(FlatObjects), ArrayText(NestedObjects), FencedTruncated,
          OneCandidate, TwoCandidates}

PrimaryReplies ==
    {[rejects |-> TRUE, error |-> ErrProvider, text |-> <<>>]}
    \cup {[rejects |-> FALSE, error |-> NotAnError, text |-> t] : t \in PrimaryTexts}

\* the verification answer that confirms OneCandidate with another spelling
\* of its title and with a url
ConfirmedDeepLearning ==
    Chars("[{\"title\":\"deep learning for x!!\",\"url\":\"http://new\"}]")

\* response.text of the verification call
ConfirmedTexts ==
    { <<>>,
      Chars("sorry"),
      Chars("[]"),
      ConfirmedDeepLearning,
      Chars("[{\"title\":\"Graph Theory\"},{\"title\":\"Learning\",\"year\":\"2021\",\"url\":\"\"}]"),
      Chars("[{\"title\":\"graph_theory, 2nd ed.\",\"url\":\"http://g\"},{\"title\":\"Unknown\"}]"),
      Chars("[{\"title\":\"x\"},{\"title\":\"deep\"}]"),
      Chars("[{\"title\":\"a\"},{\"url\":\"http://u\"}]"),
      Chars("[{\"title\":\"Deep Learning for X\",\"url\":\"http://new\"},{\"title\":\"b") }

VerificationReplies ==
    {[rejects |-> TRUE, error |-> ErrProvider, text |-> <<>>]}
    \cup {[rejects |-> FALSE, error |-> NotAnError, text |-> t] : t \in ConfirmedTexts}

\* fetchReferences is called: without a key it throws at once
FetchReferencesCalled ==
    /\ provider.stage = "idle"
    /\ \E apiKey \in ApiKeys :
          provider' = IF Trim(apiKey) = <<>>
                      THEN [stage |-> "rejected", error |-> ErrNoKey]
                      ELSE [stage |-> "generating", apiKey |-> Trim(apiKey)]
    /\ UNCHANGED <<searchHistory, activeSearchId, prefs, disapprovalHistory,
                   inflight, now, nextFetch, lastOp>>

\* the first generateContent settles: fetchReferences rejects, or it parses
\* the text and calls verifyReferences, which returns at once without
\* references and calls generateContent otherwise
FirstCallSettles ==
    /\ provider.stage = "generating"
    /\ \E reply \in PrimaryReplies :
          LET outcome == fetchReferences(provider.apiKey, reply)
              parsed == extractAndParseJSON(reply.text)
          IN  provider' =
                IF reply.rejects THEN [stage |-> "rejected", error |-> outcome.error]
                ELSE IF reply.text = <<>>
                THEN [stage |-> "rejected", error |-> outcome.error, text |-> reply.text]
                ELSE IF outcome.rejects
                THEN [stage |-> "rejected", error |-> outcome.error, text |-> reply.text,
                      parsed |-> parsed]
                ELSE IF Len(parsed.value) = 0
                THEN [stage |-> "resolved", text |-> reply.text, parsed |-> parsed,
                      verified |-> FALSE, value |-> verifyReferences(parsed.value, reply)]
                ELSE [stage |-> "verifying", text |-> reply.text, parsed |-> parsed]
    /\ UNCHANGED <<searchHistory, activeSearchId, prefs, disapprovalHistory,
                   inflight, now, nextFetch, lastOp>>

\* the generateContent of verifyReferences settles, and fetchReferences
\* resolves with what verifyReferences returns
VerificationSettles ==
    /\ provider.stage = "verifying"
    /\ \E reply \in VerificationReplies :
          provider' =
            (IF reply.rejects THEN <<>>
             ELSE [validated |-> extractAndParseJSON(reply.text)])
            @@ [stage |-> "resolved", text |-> provider.text, parsed |-> provider.parsed,
                verified |-> TRUE, reply |-> reply,
                value |-> verifyReferences(provider.parsed.value, reply)]
    /\ UNCHANGED <<searchHistory, activeSearchId, prefs, disapprovalHistory,
                   inflight, now, nextFetch, lastOp>>

\* the caller has the result, and the next call can be followed
FetchReferencesReturned ==
    /\ provider.stage \in {"resolved", "rejected"}
    /\ provider' = Idle
    /\ UNCHANGED <<searchHistory, activeSearchId, prefs, disapprovalHistory,
                   inflight, now, nextFetch, lastOp>>

NextFetchReferences ==
    \/ FetchReferencesCalled
    \/ FirstCallSettles
    \/ VerificationSettles
    \/ FetchReferencesReturned

SpecFetchReferences == Init /\ [][NextFetchReferences]_vars

-----------------------------------------------------------------------------
(* One search whose candidates carry years of every shape: four digits, a
   word, a year with a month *)

\* the longest list of candidates the search resolves with
MaxRanked == 4

RankCandidates == {"a", "b", "d", "i", "j"}

\* the lists of up to MaxRanked different candidates, in every order
RankResults ==
    UNION { {s \in [1..n -> RankCandidates] : \A x, y \in 1..n : x # y => s[x] # s[y]} :
            n \in 0..MaxRanked }

\* the panel was set to some count and to some priority before the search
RankInit ==
    /\ searchHistory = <<>>
    /\ activeSearchId = NoSession
    /\ prefs \in {[numReferences |-> CappedCount(count), priority |-> p] :
                    count \in {<<"1">>, <<"3">>}, p \in SortPriority}
    /\ disapprovalHistory = <<>>
    /\ inflight = {}
    /\ now = 0
    /\ nextFetch = 1
    /\ lastOp = "done"
    /\ provider = Idle

RankSearch == now = 0 /\ HandleSearch(Selection(now + 1))

RankSearchResolves ==
    \E f \in inflight : \E results \in RankResults : SearchResolved(f, results)

NextRank ==
    \/ RankSearch
    \/ RankSearchResolves

SpecRank == RankInit /\ [][NextRank]_vars

-----------------------------------------------------------------------------
(* Searches that follow each other so fast that Date.now() may give the same
   reading twice *)

\* calls of performFetch in SpecClock
ClockFetches == 2

\* the clock reads a millisecond later, or the same millisecond again
ClockSearch ==
    /\ nextFetch <= ClockFetches
    /\ \E reading \in {now, now + 1} \ {NoSession} :
          HandleSearchAt(Selection(nextFetch), reading)

NextClock ==
    \/ ClockSearch
    \/ ClickHighlight
    \/ ClickClear
    \/ FetchResolves
    \/ FetchRejects

SpecClock == Init /\ [][NextClock]_vars

-----------------------------------------------------------------------------
(* A provider that keeps to the prompt: the titles of an answer are all
   different and none is on the list of excluded titles of the fetch *)

\* calls of performFetch and disapprovals in SpecHonest
HonestFetches == 3

HonestDisapprovals == 2

\* the longest answer of the provider
MaxAnswer == 2

HonestCandidates == {"a", "b", "c"}

\* what the fetch f can resolve with
HonestResults(f) ==
    UNION { {s \in [1..n -> HonestCandidates] :
                /\ \A x, y \in 1..n : x # y => References[s[x]].title # References[s[y]].title
                /\ \A x \in 1..n : References[s[x]].title \notin Range(f.excludeTitles)} :
            n \in 0..MaxAnswer }

HonestSearch == SearchWithin(MaxSearches, HonestFetches)

HonestRetry == ClickRetryWithin(HonestFetches)

HonestDisapprove == ClickDisapproveWithin(HonestFetches, HonestDisapprovals)

HonestResolves ==
    \E f \in inflight : \E results \in HonestResults(f) :
        SearchResolved(f, results) \/ RefillResolved(f, results)

NextHonest ==
    \/ HonestSearch
    \/ EditPanel
    \/ HonestRetry
    \/ ClickClear
    \/ HonestDisapprove
    \/ HonestResolves
    \/ FetchRejects

SpecHonest == Init /\ [][NextHonest]_vars

-----------------------------------------------------------------------------
(* Properties *)

\* the fetches that settle in a step, and those a step issues
Settled == inflight \ inflight'

Issued == inflight' \ inflight

\* a step in which a disapproval removes a reference: only handleDisapprove
\* appends to the disapproval history
DisapprovalStep == Len(disapprovalHistory') = Len(disapprovalHistory) + 1

\* whether two references have the same publication, lower-cased and trimmed
SamePublication(r, q) ==
    Trim(ToLowerCase(References[r].publication))
        = Trim(ToLowerCase(References[q].publication))

\* C1: in every reachable state every session has at most
\* queryPrefs.numReferences visible references.  Stated for the sessions
\* whose numReferences is a count of 1 to 5, the ones the data model admits:
\* what fails for these fails for all sessions.
C1_VisibleWithinCount ==
    \A id \in DOMAIN searchHistory :
        LET entry == searchHistory[id]
        IN  entry.queryPrefs.numReferences \in 1..5
                => Len(entry.visible) <= entry.queryPrefs.numReferences

\* C2: a completion (success or failure of a search, a retry or a refill) that
\* settles when its session id is no longer in the table leaves the table as
\* it is, and an id enters the table only as the fresh id of a new search, so
\* a cleared id never comes back.
C2_NoResurrection ==
    [][ /\ \A f \in Settled :
              f.searchId \notin DOMAIN searchHistory => searchHistory' = searchHistory
        /\ \A id \in DOMAIN searchHistory' \ DOMAIN searchHistory :
              id = now' /\ now' > now ]_vars

\* a completion has just found its session cleared, and the table holds
\* nothing of it
C2_Witness ==
    /\ lastOp = "discarded"
    /\ DOMAIN searchHistory = {}
    /\ now > 0

C4_SplitAtCount ==
    [][ \A f \in inflight : \A allResults \in ProviderResults :
          (SearchResolved(f, allResults) /\ f.searchId \in DOMAIN searchHistory) =>
              LET entry == searchHistory'[f.searchId]
                  ranked == sortReferencesByPriority(allResults, entry.queryPrefs.priority)
                  k == Min(Max(entry.queryPrefs.numReferences, 0), Len(ranked))
              IN  /\ entry.status = "success"
                  /\ entry.visible = SubSeq(ranked, 1, k)
                  /\ entry.pool = SubSeq(ranked, k + 1, Len(ranked)) ]_vars

C6_IdAndContextFixed ==
    /\ \A id \in DOMAIN searchHistory :
          /\ searchHistory[id].id = id
          /\ searchHistory[id].context = Selection(id)
    /\ \A f \in inflight : f.context = Selection(f.searchId)

\* a retry fetch is outstanding for a session of the table
C6_Witness ==
    \E f \in inflight :
        /\ f.kind = "retry"
        /\ f.searchId \in DOMAIN searchHistory
        /\ f.context = searchHistory[f.searchId].context

\* C7: a disapproval of the card at index whose session has a pool that is
\* non-empty after the purge leaves the visible list as long as it was, with
\* every other card where it was and the head of the pool (re-sorted for the
\* reasons not new and not highly cited, as it stood otherwise) at index; the
\* pool is left without exactly that head.
C7_ReplacementInPlace ==
    [][ DisapprovalStep =>
          \A index \in CardIndexes : \A reason \in DisapprovalReason :
            LET entry == searchHistory[activeSearchId]
                purged == IF reason = UNWANTED_SOURCE
                          THEN Filter(entry.pool,
                                  {r \in Range(entry.pool) :
                                     ~SamePublication(r, entry.visible[index + 1])})
                          ELSE entry.pool
                after == searchHistory'[activeSearchId]
            IN  (HandleDisapprove(index, reason) /\ purged # <<>>) =>
                  /\ Len(after.visible) = Len(entry.visible)
                  /\ \A j \in DOMAIN entry.visible :
                        j # index + 1 => after.visible[j] = entry.visible[j]
                  /\ \E ranked \in Arrangements(purged) :
                        /\ reason \in {NOT_RELEVANT, UNWANTED_SOURCE} => ranked = purged
                        /\ after.visible[index + 1] = Head(ranked)
                        /\ after.pool = Tail(ranked) ]_vars

\* the first of two cards was disapproved: c, the oldest, has taken its place
\* before a
C7_Witness ==
    \E id \in DOMAIN searchHistory :
        /\ searchHistory[id].visible = <<"c", "a">>
        /\ searchHistory[id].queryPrefs.priority = NEWEST
        /\ disapprovalHistory # <<>>
        /\ disapprovalHistory[Len(disapprovalHistory)].reference = "b"

\* C8: a disapproval for the reason unwanted source leaves in the pool no
\* reference whose publication, lower-cased and trimmed, is that of the
\* removed one, promotes none of them, and keeps the other references of the
\* pool in their order, the first of them promoted.
C8_UnwantedSourcePurged ==
    [][ DisapprovalStep =>
          \A index \in CardIndexes :
            LET entry == searchHistory[activeSearchId]
                after == searchHistory'[activeSearchId]
                rejected == {r \in Range(entry.pool) :
                               SamePublication(r, entry.visible[index + 1])}
                others == Filter(entry.pool, Range(entry.pool) \ rejected)
                promoted == IF Len(after.visible) = Len(entry.visible)
                            THEN <<after.visible[index + 1]>> ELSE <<>>
            IN  HandleDisapprove(index, UNWANTED_SOURCE) =>
                  /\ Range(after.pool) \cap rejected = {}
                  /\ Range(promoted) \cap rejected = {}
                  /\ others = promoted \o after.pool ]_vars

\* a was disapproved as an unwanted source when b, of the same publication in
\* another spelling, was in the pool (the refill was told of b): b is gone
C8_Witness ==
    \E f \in inflight :
        /\ f.kind = "refill"
        /\ f.searchId \in DOMAIN searchHistory
        /\ References["b"].title \in Range(f.excludeTitles)
        /\ "b" \notin Range(searchHistory[f.searchId].visible)
                         \cup Range(searchHistory[f.searchId].pool)
        /\ disapprovalHistory # <<>>
        /\ disapprovalHistory[Len(disapprovalHistory)].reference = "a"
        /\ disapprovalHistory[Len(disapprovalHistory)].reason = UNWANTED_SOURCE

\* C9: handleDisapprove called without an active session, or with an index
\* that is not one of 0..visible.length-1, changes neither the session table
\* nor the disapproval history nor the set of outstanding fetches.
C9_DisapproveNoOp ==
    [][ \A index \in IndexInputs : \A reason \in DisapprovalReason :
          ( /\ HandleDisapprove(index, reason)
            /\ ~HasActiveData \/ ~HasIndex(currentReferences, index) )
              => UNCHANGED <<searchHistory, disapprovalHistory, inflight>> ]_vars

\* C10: a disapproval that leaves the pool empty sets isRefilling and issues
\* one refill fetch, with the context and the queryPrefs of the session; one
\* that leaves the pool non-empty issues no fetch and leaves isRefilling.
C10_RefillWhenPoolEmpty ==
    [][ DisapprovalStep =>
          \A index \in CardIndexes : \A reason \in DisapprovalReason :
            LET entry == searchHistory[activeSearchId]
                after == searchHistory'[activeSearchId]
            IN  HandleDisapprove(index, reason) =>
                  IF after.pool = <<>>
                  THEN /\ "isRefilling" \in DOMAIN after
                       /\ after.isRefilling = TRUE
                       /\ Cardinality(Issued) = 1
                       /\ \A f \in Issued :
                             /\ f.kind = "refill"
                             /\ f.searchId = activeSearchId
                             /\ f.context = entry.context
                             /\ f.prefs = entry.queryPrefs
                  ELSE /\ Issued = {}
                       /\ ("isRefilling" \in DOMAIN after) = ("isRefilling" \in DOMAIN entry)
                       /\ "isRefilling" \in DOMAIN entry =>
                              after.isRefilling = entry.isRefilling ]_vars

\* a disapproval has emptied the pool: the session is refilling, its refill
\* outstanding
C10_Witness ==
    \E f \in inflight :
        /\ f.kind = "refill"
        /\ f.searchId \in DOMAIN searchHistory
        /\ searchHistory[f.searchId].pool = <<>>
        /\ "isRefilling" \in DOMAIN searchHistory[f.searchId]
        /\ searchHistory[f.searchId].isRefilling = TRUE
        /\ f.prefs = searchHistory[f.searchId].queryPrefs

\* C11: when a refill resolves for a session in the table, K being the
\* numReferences of the session's queryPrefs: if the session shows fewer than
\* K cards and the refill brought a reference, the first K - visible.length
\* references it brought are appended to visible and the others become the
\* pool; otherwise visible is left and all it brought becomes the pool.
C11_RefillTopsUpToCount ==
    [][ \A f \in inflight : \A moreResults \in ProviderResults :
          (RefillResolved(f, moreResults) /\ f.searchId \in DOMAIN searchHistory) =>
              LET entry == searchHistory[f.searchId]
                  after == searchHistory'[f.searchId]
                  K == entry.queryPrefs.numReferences
                  needed == Min(K - Len(entry.visible), Len(moreResults))
              IN  IF Len(entry.visible) < K /\ Len(moreResults) > 0
                  THEN /\ after.visible = entry.visible \o SubSeq(moreResults, 1, needed)
                       /\ after.pool = SubSeq(moreResults, needed + 1, Len(moreResults))
                  ELSE /\ after.visible = entry.visible
                       /\ after.pool = moreResults ]_vars

\* C12: a refill that rejects for a session in the table changes no field of
\* the session but isRefilling: status, errorMessage (set or not), visible
\* and pool are as they were, and the status is not turned into error.
C12_RefillFailureSwallowed ==
    [][ \A f \in inflight :
          (RefillRejected(f) /\ f.searchId \in DOMAIN searchHistory) =>
              LET entry == searchHistory[f.searchId]
                  after == searchHistory'[f.searchId]
              IN  /\ DOMAIN after = DOMAIN entry \cup {"isRefilling"}
                  /\ \A k \in DOMAIN entry \ {"isRefilling"} : after[k] = entry[k]
                  /\ after.status = "error" => entry.status = "error" ]_vars

\* the refill of a session has just failed, and the session is in status
\* success without a message
C12_Witness ==
    /\ lastOp = "refillFailed"
    /\ \E id \in DOMAIN searchHistory :
          /\ searchHistory[id].status = "success"
          /\ "errorMessage" \notin DOMAIN searchHistory[id]
          /\ "isRefilling" \in DOMAIN searchHistory[id]
          /\ searchHistory[id].isRefilling = FALSE

\* the session id is in the table and refilling
Refilling(id) ==
    /\ id \in DOMAIN searchHistory
    /\ "isRefilling" \in DOMAIN searchHistory[id]
    /\ searchHistory[id].isRefilling = TRUE

\* C13: a refill that settles, resolved or rejected, for a session in the
\* table leaves the session with isRefilling false; and, every fetch settling
\* in the end, a session that is refilling comes to be not refilling or
\* cleared.
C13_RefillingEnds ==
    /\ [][ \A f \in Settled :
             (f.kind = "refill" /\ f.searchId \in DOMAIN searchHistory) =>
                 /\ f.searchId \in DOMAIN searchHistory'
                 /\ "isRefilling" \in DOMAIN searchHistory'[f.searchId]
                 /\ searchHistory'[f.searchId].isRefilling = FALSE ]_vars
    /\ \A id \in 1..MaxSearches : Refilling(id) ~> ~Refilling(id)

\* the refill of a session has settled and no fetch is outstanding: the
\* session, which was refilling, is not
C13_Witness ==
    /\ inflight = {}
    /\ \E id \in DOMAIN searchHistory :
          /\ "isRefilling" \in DOMAIN searchHistory[id]
          /\ searchHistory[id].isRefilling = FALSE

\* C14: in every reachable state a session is refilling (isRefilling true)
\* exactly when a refill fetch issued for it is outstanding.
C14_RefillingIffOutstanding ==
    \A id \in DOMAIN searchHistory :
        Refilling(id) <=> \E f \in inflight : f.kind = "refill" /\ f.searchId = id

\* C15: the titles a disapproval's refill is told to exclude are the titles
\* of the references the session holds, visible or in the pool, after the
\* disapproval: all of them and no other.
C15_ExclusionIsWhatIsHeld ==
    [][ DisapprovalStep =>
          \A f \in Issued :
            f.kind = "refill" =>
              LET after == searchHistory'[f.searchId]
              IN  Range(f.excludeTitles) =
                    {References[r].title : r \in Range(after.visible) \cup Range(after.pool)} ]_vars


\* the disapprovals so far were for reasons that purge nothing else
NoSourcePurge ==
    \A i \in DOMAIN disapprovalHistory : disapprovalHistory[i].reason # UNWANTED_SOURCE

\* the scenario's session holds the answer to its search
ScenarioAnswered ==
    /\ 1 \in DOMAIN searchHistory
    /\ searchHistory[1].status = "success"

\* C16, as the code has it: with Count 2 and five candidates (two cards, three
\* in the pool), and disapprovals that purge no other source, the pool holds
\* 3, 2 and 1 candidates and isRefilling is unset before the third
\* disapproval; the third disapproval empties the pool and is the one that
\* sets isRefilling; when its refill resolves with three new references the
\* two cards stay as they are, all three new references are the pool, and
\* isRefilling is false.
C16_ThirdDisapprovalRefills ==
    (ScenarioAnswered /\ NoSourcePurge) =>
        LET s == searchHistory[1]
            n == Len(disapprovalHistory)
        IN  /\ n < 3 => /\ Len(s.visible) = 2
                        /\ Len(s.pool) = 3 - n
                        /\ "isRefilling" \notin DOMAIN s
                        /\ inflight = {}
            /\ (n = 3 /\ inflight # {}) =>
                        /\ Len(s.visible) = 2
                        /\ s.pool = <<>>
                        /\ Refilling(1)
            /\ (n = 3 /\ inflight = {}) =>
                        /\ Len(s.visible) = 2
                        /\ Range(s.visible) \cap Range(ThreeNew) = {}
                        /\ s.pool = ThreeNew
                        /\ "isRefilling" \in DOMAIN s
                        /\ s.isRefilling = FALSE

\* the refill of the third disapproval has resolved
C16_Witness ==
    /\ ScenarioAnswered
    /\ NoSourcePurge
    /\ Len(disapprovalHistory) = 3
    /\ inflight = {}
    /\ searchHistory[1].pool = ThreeNew

\* C16, as stated: isRefilling is first set by the fourth disapproval, so it
\* is unset while three or fewer references were disapproved.
C16_FourthDisapprovalRefills ==
    (ScenarioAnswered /\ NoSourcePurge /\ Len(disapprovalHistory) <= 3) =>
        ~Refilling(1)


\* the step adds, removes or changes the entry of session id
Touched(id) ==
    \/ (id \in DOMAIN searchHistory) # (id \in DOMAIN searchHistory')
    \/ /\ id \in DOMAIN searchHistory
       /\ id \in DOMAIN searchHistory'
       /\ searchHistory[id] # searchHistory'[id]

SessionIds == 1..(PairSearches + 1)

C18_RetryRefreshesPrefs ==
    [][ /\ (HandleRetry /\ HasActiveData) =>
              LET after == searchHistory'[activeSearchId]
              IN  /\ after.status = "loading"
                  /\ ~Has(after, "errorMessage")
                  /\ after.queryPrefs = prefs
                  /\ Cardinality(Issued) = 1
                  /\ \A f \in Issued : /\ f.searchId = activeSearchId
                                       /\ f.prefs = after.queryPrefs
                                       /\ f.context = after.context
        /\ \A id \in DOMAIN searchHistory \cap DOMAIN searchHistory' :
              searchHistory'[id].queryPrefs # searchHistory[id].queryPrefs =>
                  HandleRetry /\ id = activeSearchId
        /\ prefs' # prefs => searchHistory' = searchHistory ]_vars

\* a retry has just replaced the preferences the session was searched with
C18_Witness ==
    \E f \in inflight :
        /\ f.kind = "retry"
        /\ f.searchId \in DOMAIN searchHistory
        /\ searchHistory[f.searchId].status = "loading"
        /\ searchHistory[f.searchId].queryPrefs = f.prefs
        /\ f.prefs = prefs
        /\ f.prefs # [numReferences |-> 1, priority |-> MOST_CITED]


\* fetch f is a search or a retry, not a refill
Primary(f) == f.kind \in {"search", "retry"}

\* C19: when the last outstanding search or retry fetch of a stored session
\* settles, the session shows that completion and nothing of an earlier one:
\* resolved, its status is success and it has no errorMessage (the retry
\* cleared it and a lone success writes none); rejected, its status is error
\* and it has an errorMessage.
C19_LastCompletionWins ==
    [][ \A f \in Settled :
          ( /\ Primary(f)
            /\ f.searchId \in DOMAIN searchHistory
            /\ ~ \E g \in inflight' : Primary(g) /\ g.searchId = f.searchId ) =>
              LET after == searchHistory'[f.searchId]
              IN  /\ after.status \in {"success", "error"}
                  /\ after.status = "success" => ~Has(after, "errorMessage")
                  /\ after.status = "error" => Has(after, "errorMessage") ]_vars


\* the failures of a fetch that C20 names: no credentials, a failure of the
\* provider, an empty response, a text that gives no JSON array
NamedFailure(apiKey, reply) ==
    \/ Trim(apiKey) = <<>>
    \/ reply.rejects
    \/ reply.text = <<>>
    \/ extractAndParseJSON(reply.text).throws

\* C20: with no credentials, a failure of the provider, an empty response or
\* a text that gives no JSON array, fetchReferences rejects; and a search or
\* retry fetch that rejects so leaves its session, if it is stored, in status
\* error with an errorMessage, its visible and pool as they were.
C20_FailureEndsInError ==
    [][ /\ \A apiKey \in ApiKeys : \A reply \in ProviderReplies :
              NamedFailure(apiKey, reply) => fetchReferences(apiKey, reply).rejects
        /\ \A f \in Settled : \A outcome \in ProviderOutcomes :
              ( /\ outcome.rejects
                /\ f.searchId \in DOMAIN searchHistory
                /\ SearchRejected(f, outcome.error) ) =>
                  LET before == searchHistory[f.searchId]
                      after == searchHistory'[f.searchId]
                  IN  /\ after.status = "error"
                      /\ Has(after, "errorMessage")
                      /\ after.errorMessage \in
                           {outcome.error.message, "An unexpected error occurred.",
                            "Retry failed"}
                      /\ after.visible = before.visible
                      /\ after.pool = before.pool ]_vars

\* a session that showed references was retried, and the retry failed on a
\* text that gives no JSON array: the session is in error and still holds them
C20_Witness ==
    \E id \in DOMAIN searchHistory :
        /\ searchHistory[id].status = "error"
        /\ searchHistory[id].errorMessage = ErrParse.message
        /\ searchHistory[id].visible # <<>>
        /\ inflight = {}


\* C21: the Count of the panel is an integer from 1 to 5 whatever was typed,
\* and so is the numReferences of the queryPrefs of every session.
C21_CountWithinOneToFive ==
    /\ prefs.numReferences \in 1..5
    /\ \A id \in DOMAIN searchHistory :
          searchHistory[id].queryPrefs.numReferences \in 1..5


\* where the i-th object ends in the text of the array of these objects
RECURSIVE EndOfObject(_, _)
EndOfObject(objects, i) ==
    IF i = 1 THEN 1 + Len(objects[1])
    ELSE EndOfObject(objects, i - 1) + 1 + Len(objects[i])

\* how many of the objects are complete in the first n characters
CompleteIn(objects, n) ==
    Cardinality({i \in DOMAIN objects : EndOfObject(objects, i) <= n})

\* the text the followed call has parsed is the array of these objects cut
\* off after n characters, with one object complete at least
ParsedTruncation(objects, n) ==
    /\ "parsed" \in DOMAIN provider
    /\ provider.text = SubSeq(ArrayText(objects), 1, n)
    /\ CompleteIn(objects, n) >= 1

\* C22: of an array that was cut off before its closing bracket, with one
\* object complete at least, the parse returns the complete objects in their
\* order, also when the objects hold arrays of their own.
C22_TruncatedArrayRecovered ==
    \A objects \in {FlatObjects, NestedObjects} :
        \A n \in 1..(Len(ArrayText(objects)) - 1) :
            ParsedTruncation(objects, n) =>
                provider.parsed =
                    Returns([i \in 1..CompleteIn(objects, n) |-> JsonParse(objects[i]).value])


\* the followed call has parsed the fenced answer that was cut off after
\* its second object
ParsedFencedTruncated ==
    "parsed" \in DOMAIN provider /\ provider.text = FencedTruncated

\* C23, as the code has it: of the text made of the json fence, a line break,
\* [{"a":1},{"a":2} and a line break, the parse returns both objects, the
\* second one being complete: [{"a":1},{"a":2}].
C23_FencedTruncatedGivesBoth ==
    ParsedFencedTruncated =>
        provider.parsed = Returns(<<[a |-> 1], [a |-> 2]>>)

\* the call goes on to the verification pass with what it parsed
C23_Witness ==
    ParsedFencedTruncated /\ provider.stage = "verifying"

\* C23, as stated: the parse of that text returns [{"a":1}] and nothing else.
C23_FencedTruncatedGivesFirst ==
    ParsedFencedTruncated =>
        provider.parsed = Returns(<<[a |-> 1]>>)


\* the texts that extractAndParseJSON was handed by the followed call, each
\* with what it gave: the answer of the first call, and the answer of the
\* verification call
ParsedTexts ==
    (IF "parsed" \in DOMAIN provider
     THEN {[text |-> provider.text, result |-> provider.parsed]} ELSE {})
    \cup (IF "validated" \in DOMAIN provider
          THEN {[text |-> provider.reply.text, result |-> provider.validated]} ELSE {})

\* C24: of a text without '[' (the empty text and the texts with ']' alone
\* included) the parse throws and returns no sequence.
C24_NoBracketFails ==
    \A p \in ParsedTexts : "[" \notin Range(p.text) => p.result.throws


\* the verification call of the followed call has settled
Verified == provider.stage = "resolved" /\ provider.verified

\* C25: when the verification call rejects, or its text is empty, or its
\* text cannot be decoded into an array, verifyReferences returns the
\* references it was given, the same ones in the same order.
C25_VerificationFailsOpen ==
    ( /\ Verified
      /\ \/ provider.reply.rejects
         \/ provider.reply.text = <<>>
         \/ provider.validated.throws ) =>
        provider.value = provider.parsed.value


\* the followed call had OneCandidate verified by ConfirmedDeepLearning
MergedDeepLearning ==
    /\ Verified
    /\ provider.text = OneCandidate
    /\ provider.reply.text = ConfirmedDeepLearning

\* C26, as the code has it: original {title:"Deep Learning for X",
\* citationCount:40} and confirmed {title:"deep learning for x!!",
\* url:"http://new"} merge to one reference with the title of the confirmed
\* item, "deep learning for x!!", its url, and the citationCount of the
\* original.
C26_MergeAdoptsConfirmedTitle ==
    MergedDeepLearning =>
        provider.value = <<[title |-> Chars("deep learning for x!!"),
                            url |-> Chars("http://new"),
                            citationCount |-> 40]>>

\* that merge has been made
C26_Witness == MergedDeepLearning /\ Len(provider.value) = 1

\* C26, as stated: the merged reference has the title of the original,
\* "Deep Learning for X".
C26_MergeKeepsOriginalTitle ==
    MergedDeepLearning =>
        provider.value = <<[title |-> Chars("Deep Learning for X"),
                            url |-> Chars("http://new"),
                            citationCount |-> 40]>>


\* what the first answer and the verification answer parsed to
Originals == provider.parsed.value
Confirmed == provider.validated.value

\* the verification answer parsed, and every original and every confirmed
\* item has a title, so that the merge ran to its end
MergeRan ==
    /\ Verified
    /\ ~provider.reply.rejects
    /\ provider.reply.text # <<>>
    /\ ~provider.validated.throws
    /\ \A i \in 1..Len(Originals) : "title" \in DOMAIN Originals[i]
    /\ \A i \in 1..Len(Confirmed) : "title" \in DOMAIN Confirmed[i]

\* one of the two normalized titles contains the other
TitlesMatch(o, v) ==
    \/ Includes(NormalizeTitle(o.title), NormalizeTitle(v.title))
    \/ Includes(NormalizeTitle(v.title), NormalizeTitle(o.title))

\* e has field k exactly as o has it
SameField(e, o, k) ==
    /\ k \in DOMAIN e <=> k \in DOMAIN o
    /\ k \in DOMAIN o => e[k] = o[k]

\* e is o with url, title and year taken from v where v has a non-empty one
MergedAsSpecified(e, o, v) ==
    /\ DOMAIN e \subseteq DOMAIN o \cup Adopted
    /\ \A k \in Adopted :
          IF k \in DOMAIN v /\ v[k] # <<>>
          THEN k \in DOMAIN e /\ e[k] = v[k]
          ELSE SameField(e, o, k)
    /\ \A k \in (DOMAIN o \cup DOMAIN e) \ Adopted : SameField(e, o, k)

\* C27: every reference emitted by the merge equals a matched original
\* except that url, title and year each take the confirmed item's value when
\* that value is non-empty and the original's otherwise; summary, relevance,
\* citationCount, authors and publication are always those of the original.
C27_MergedFields ==
    MergeRan =>
        \A i \in 1..Len(provider.value) :
            \E n \in 1..Len(Originals), m \in 1..Len(Confirmed) :
                /\ TitlesMatch(Originals[n], Confirmed[m])
                /\ MergedAsSpecified(provider.value[i], Originals[n], Confirmed[m])

\* a reference was emitted with the year of the confirmed item, and with the
\* url and the enrichment of its original because the confirmed url is empty
C27_Witness ==
    /\ MergeRan
    /\ provider.text = TwoCandidates
    /\ \E i \in 1..Len(provider.value) :
          /\ provider.value[i].year = Chars("2021")
          /\ provider.value[i].url = Chars("http://old")
          /\ provider.value[i].title = Chars("Learning")
          /\ provider.value[i].summary = Chars("s")
          /\ provider.value[i].authors = <<Chars("A")>>


\* a title lower-cased and with everything but letters and digits removed
AlphaNumericTitle(title) ==
    Filter(ToLowerCase(title), Range(Lower) \cup Range(Upper) \cup Range(Digits))

\* the confirmed item's title so normalized contains, or is contained in,
\* that of some original
MatchesSomeOriginal(v) ==
    \E n \in 1..Len(Originals) :
        \/ Includes(AlphaNumericTitle(Originals[n].title), AlphaNumericTitle(v.title))
        \/ Includes(AlphaNumericTitle(v.title), AlphaNumericTitle(Originals[n].title))

\* C28: the merge emits one reference for each confirmed item whose
\* normalized title (lower-cased, non-alphanumerics removed) contains or is
\* contained in some original's normalized title, in the order of the
\* confirmed sequence; the other confirmed items are dropped, and originals
\* matched by no confirmed item do not appear.
C28_OnePerMatchedConfirmed ==
    MergeRan =>
        LET kept == SelectSeq(Confirmed, MatchesSomeOriginal)
        IN  /\ Len(provider.value) = Len(kept)
            /\ \A i \in 1..Len(kept) :
                  \E n \in 1..Len(Originals) :
                      MergedAsSpecified(provider.value[i], Originals[n], kept[i])


\* the integer formed by the leading run of digits of the year, 0 without one
LeadingYear(r) ==
    LET run == DigitRun(References[r].year)
    IN  IF run = <<>> THEN 0 ELSE DecimalValue(run)

\* C29: a search with priority Newest shows its candidates in descending
\* order of year, the year value being the integer formed by the leading run
\* of digits of the year string (0 when it is empty or does not start with a
\* digit), candidates of equal year value keeping their input order.
C29_NewestByLeadingYear ==
    [][\A f \in inflight : \A results \in RankResults :
          (SearchResolved(f, results) /\ f.prefs.priority = NEWEST) =>
              searchHistory'[f.searchId].visible \o searchHistory'[f.searchId].pool
                  = SortDescBy(results, [r \in Range(results) |-> LeadingYear(r)])]_vars


\* the position in visible of the card that splice(index, 1) takes out, 0
\* when it takes out none
RemovedPosition(visible, index) ==
    IF SpliceDelete(visible, index) = visible THEN 0
    ELSE RelIndex(index, Len(visible)) + 1

\* C30: the disapproval history is append-only: each disapprove that removes
\* a reference appends exactly one record holding that reference and the
\* given reason, a disapprove that removes nothing appends none, and no
\* other operation (clear, retry, fetch completion, refill) removes, changes
\* or adds a record.
C30_HistoryAppendOnly ==
    [][/\ Len(disapprovalHistory') >= Len(disapprovalHistory)
       /\ SubSeq(disapprovalHistory', 1, Len(disapprovalHistory)) = disapprovalHistory
       /\ disapprovalHistory' # disapprovalHistory =>
             \E index \in IndexInputs : \E reason \in DisapprovalReason :
                 HandleDisapprove(index, reason)
       /\ \A index \in IndexInputs : \A reason \in DisapprovalReason :
             HandleDisapprove(index, reason) =>
                 LET at == IF HasActiveData
                           THEN RemovedPosition(currentReferences, index) ELSE 0
                 IN  IF at = 0 THEN disapprovalHistory' = disapprovalHistory
                     ELSE /\ Len(disapprovalHistory') = Len(disapprovalHistory) + 1
                          /\ disapprovalHistory'[Len(disapprovalHistory')].reference
                                = currentReferences[at]
                          /\ disapprovalHistory'[Len(disapprovalHistory')].reason = reason]_vars


\* the step is a search
SearchStep == \E f \in inflight' \ inflight : f.kind = "search"

\* C31: every search allocates a session id different from that of every
\* other session, even for two searches started at the same clock instant:
\* the id is not in the table, and no outstanding fetch was issued for it, so
\* no entry is overwritten and no completion reaches another session.
C31_FreshSessionId ==
    [][SearchStep =>
          /\ activeSearchId' \notin DOMAIN searchHistory
          /\ \A f \in inflight : f.searchId # activeSearchId']_vars


\* the year of a reference as a number, and below every number when the year
\* string does not parse
YearRank(r) ==
    IF ParseInt(References[r].year) = NaN THEN 0 - 1 ELSE ParseInt(References[r].year)

\* C32: after a disapproval with reason NotNew on a session whose pool is not
\* empty, the promoted replacement is a pool entry with the greatest numeric
\* year among all pool entries, entries whose year does not parse ranking
\* below every entry whose year parses.
C32_NotNewPromotesNewest ==
    [][\A index \in CardIndexes :
          ( /\ HandleDisapprove(index, NOT_NEW)
            /\ Len(searchHistory[activeSearchId].pool) > 0 ) =>
              LET pool == searchHistory[activeSearchId].pool
                  promoted == searchHistory'[activeSearchId].visible[index + 1]
              IN  /\ promoted \in Range(pool)
                  /\ \A r \in Range(pool) : YearRank(promoted) >= YearRank(r)]_vars


\* citationCount, absent counted as 0
CitationCount(r) ==
    IF "citationCount" \in DOMAIN References[r] THEN References[r].citationCount ELSE 0

\* out holds the entries of in (which are all different) in descending order
\* of citationCount, entries of equal count in the order they have in `in`
DescendingByCitations(out, in) ==
    /\ Len(out) = Len(in)
    /\ Range(out) = Range(in)
    /\ \A x, y \in DOMAIN out :
          x < y =>
            \/ CitationCount(out[x]) > CitationCount(out[y])
            \/ /\ CitationCount(out[x]) = CitationCount(out[y])
               /\ \E u, v \in DOMAIN in : u < v /\ in[u] = out[x] /\ in[v] = out[y]

\* C33: after a disapproval with reason LowImpact the pool, with its promoted
\* head put back in front, is the former pool in descending order of
\* citationCount (absent counted as 0, ties in previous order), and that order
\* is the one stored; after a disapproval with NotRelevant or UnwantedSource
\* the promoted replacement is the first remaining pool entry and the others
\* keep their relative order.
C33_PoolOrderAfterDisapproval ==
    [][\A index \in CardIndexes : \A reason \in DisapprovalReason \ {NOT_NEW} :
          HandleDisapprove(index, reason) =>
              LET before == searchHistory[activeSearchId]
                  after == searchHistory'[activeSearchId]
                  ranked == IF Len(after.visible) = Len(before.visible)
                            THEN <<after.visible[index + 1]>> \o after.pool
                            ELSE after.pool
              IN  /\ before.pool # <<>> /\ reason # UNWANTED_SOURCE => ranked # <<>>
                  /\ IF reason = LOW_IMPACT
                     THEN DescendingByCitations(ranked, before.pool)
                     ELSE /\ ranked = Filter(before.pool, Range(ranked))
                          /\ reason = NOT_RELEVANT => ranked = before.pool]_vars

\* a disapproval for LowImpact has promoted e, of 12 citations, from the pool
\* b, d, e and has left the pool as d, b
C33_Witness ==
    /\ Len(disapprovalHistory) = 1
    /\ disapprovalHistory[1].reason = LOW_IMPACT
    /\ \E id \in DOMAIN searchHistory :
          /\ searchHistory[id].queryPrefs.priority = HIGH_IMPACT
          /\ "e" \in Range(searchHistory[id].visible)
          /\ searchHistory[id].pool = <<"d", "b">>


\* C34: within one session a refill is serialized with later disapprovals: no
\* second refill is issued while one is outstanding, so at most one refill
\* fetch per session is in flight at any time.
C34_OneRefillInFlight ==
    \A f, g \in inflight :
        (f.kind = "refill" /\ g.kind = "refill" /\ f.searchId = g.searchId) => f = g


\* the references the user has disapproved
Disapproved == {disapprovalHistory[i].reference : i \in DOMAIN disapprovalHistory}

\* the references a session holds
Held(entry) == Range(entry.visible) \cup Range(entry.pool)

\* C35: with a provider that returns no title of the exclusion list it was
\* given, a refill never puts a reference that the user disapproved in a
\* session back into the visible list or the pool of that session.
C35_RefillNeverRestoresDisapproved ==
    [][\A f \in inflight : \A results \in HonestResults(f) :
          (RefillResolved(f, results) /\ SessionPresent(searchHistory, f.searchId)) =>
              Held(searchHistory'[f.searchId]) \cap Disapproved
                  \subseteq Held(searchHistory[f.searchId])]_vars


\* the titles of the references of a list are all different
DistinctTitles(refs) ==
    \A x, y \in DOMAIN refs : x # y => References[refs[x]].title # References[refs[y]].title

\* C36: with a provider whose answers have pairwise distinct titles and no
\* title of the exclusion list they were given, no session ever holds two
\* references of the same title across its visible list and its pool,
\* whatever the interleaving of disapprovals, refills and retries.
C36_NoDuplicateTitles ==
    \A id \in DOMAIN searchHistory :
        DistinctTitles(searchHistory[id].visible \o searchHistory[id].pool)


\* C37: applying a refill completion never removes a reference that is in
\* the session's pool at that moment: what a retry completion or another
\* refill wrote into the pool while this refill was in flight is still in the
\* pool afterwards.
C37_RefillKeepsPool ==
    [][\A f \in inflight : \A results \in HonestResults(f) :
          (RefillResolved(f, results) /\ SessionPresent(searchHistory, f.searchId)) =>
              Range(searchHistory[f.searchId].pool)
                  \subseteq Range(searchHistory'[f.searchId].pool)]_vars


\* C38: the output of the merge contains each original reference at most
\* once: two confirmed items never both produce an output reference derived
\* from the same original, so the output is never longer than the list of
\* originals.
C38_MergeNotLongerThanOriginals ==
    MergeRan => Len(provider.value) <= Len(Originals)


\* the session id is in the table with status loading
Loading(id) == id \in DOMAIN searchHistory /\ searchHistory[id].status = "loading"

\* C39: every issued fetch settling in the end, every session that is
\* loading comes to be in status success or error, or is cleared: a loading
\* session always has a search or retry fetch outstanding, and none stays
\* loading forever, whatever other sessions, disapprovals or refills are in
\* progress.
C39_LoadingEnds ==
    /\ [](\A id \in DOMAIN searchHistory :
             Loading(id) =>
                 \E f \in inflight : f.searchId = id /\ f.kind \in {"search", "retry"})
    /\ \A id \in 1..PairSearches : Loading(id) ~> ~Loading(id)

\* a session that was loading has its results while the other session is
\* still loading
C39_Witness ==
    \E id, other \in DOMAIN searchHistory :
        /\ searchHistory[id].status = "success"
        /\ Loading(other)


\* C40: the disapproval history handed to the provider with a fetch contains
\* every disapproval recorded before the fetch was issued; in particular the
\* refill that a disapproval triggers receives a history that includes that
\* disapproval.
C40_FetchSeesWholeHistory ==
    [][\A f \in inflight' \ inflight :
          /\ Len(f.history) >= Len(disapprovalHistory')
          /\ SubSeq(f.history, 1, Len(disapprovalHistory')) = disapprovalHistory']_vars

====
